---- MODULE Spec2Model ----
(***************************************************************************)
(* Model of esp32-http-servo: the Wi-Fi connection task, the bring-up      *)
(* sequence and control loop of main, the HTTP server task with its        *)
(* request router, the serial command task, and the servo duty mapping.    *)
(*                                                                         *)
(* Text is modelled as a sequence of one-character strings, so that        *)
(* parsing and formatting are computed character by character as the       *)
(* code computes them.  An Option<T> is a sequence of length at most one:  *)
(* None is <<>> and Some(v) is <<v>>.                                      *)
(***************************************************************************)
EXTENDS Integers, Sequences, FiniteSets, TLC

VARIABLES
    \* radio / link-layer driver (esp_radio), seen through main.rs
    staState,           \* sta_state(): "Invalid" | "Started" | "Connected" | "Disconnected"
    started,            \* controller.is_started()
    discEvent,          \* a StaDisconnected event fired since the last wait began
    apAccepts,          \* environment: the access point accepts associations
    \* IP stack (embassy_net), seen through main.rs
    linkUp,             \* stack.is_link_up()
    ipv4,               \* stack.config_v4().is_some()
    \* connection task
    pc_conn,            \* position of the connection task
    \* main task
    pc_main,            \* position of main
    httpSpawned,        \* http_server_task has been spawned
    duty_hw,            \* last value given to channel.set_duty_hw
    \* http_server_task
    pc_http,            \* position of the HTTP server task
    request,            \* the decoded request of the current connection
    response,           \* Option: the response built for it
    offset,             \* bytes of the response written so far
    \* command slots
    SERVO_ANGLE,        \* Option<u8>: Signal written by the HTTP router
    SERIAL_SERVO_ANGLE, \* Option<u8>: Signal written by the serial task
    \* serial_input_task
    pc_serial,          \* position of the serial task
    rxq,                \* bytes waiting in the UART receive FIFO
    buffer,             \* buffer[..pos] of the serial task (pos = Len(buffer))
    \* history (observations only, never read by the program)
    hist

vars == <<staState, started, discEvent, apAccepts, linkUp, ipv4, pc_conn,
          pc_main, httpSpawned, duty_hw, pc_http, request, response, offset,
          SERVO_ANGLE, SERIAL_SERVO_ANGLE, pc_serial, rxq, buffer, hist>>

linkVars   == <<staState, started, discEvent, apAccepts, pc_conn>>
netVars    == <<linkUp, ipv4>>
mainVars   == <<pc_main, httpSpawned, duty_hw>>
httpVars   == <<pc_http, request, response, offset>>
serialVars == <<pc_serial, rxq, buffer>>

-----------------------------------------------------------------------------
(* Option<T> *)

None == <<>>

Some(v) == <<v>>

IsSome(o) == o # <<>>

Unwrap(o) == o[1]

-----------------------------------------------------------------------------
(* Text primitives of core::str used by the parsers *)

Digits == <<"0", "1", "2", "3", "4", "5", "6", "7", "8", "9">>

IsDigit(c) == \E i \in 1..10 : Digits[i] = c

DigitVal(c) == (CHOOSE i \in 1..10 : Digits[i] = c) - 1

\* char::is_whitespace on the characters a request or a command line can hold
IsWhitespace(c) == c \in {" ", "\t", "\r", "\n"}

\* the largest value of a u8
U8_MAX == 255

\* format!("{}", n) of an unsigned integer: its decimal digits, no padding
RECURSIVE to_string(_)
to_string(n) ==
    IF n < 10 THEN <<Digits[n + 1]>>
    ELSE to_string(n \div 10) \o <<Digits[(n % 10) + 1]>>

\* the value of a non-empty run of decimal digits, saturating just above u8
RECURSIVE DecimalValue(_, _)
DecimalValue(s, acc) ==
    IF s = <<>> THEN acc
    ELSE IF acc > U8_MAX THEN acc
    ELSE DecimalValue(Tail(s), acc * 10 + DigitVal(Head(s)))

\* variant: the value wraps around at 256 instead of failing
RECURSIVE DecimalValueWrapping(_, _)
DecimalValueWrapping(s, acc) ==
    IF s = <<>> THEN acc
    ELSE DecimalValueWrapping(Tail(s), (acc * 10 + DigitVal(Head(s))) % (U8_MAX + 1))

parse_u8_wrapping(s) ==
    LET digits == IF s # <<>> /\ Head(s) = "+" THEN Tail(s) ELSE s
    IN  IF digits = <<>> THEN None
        ELSE IF \E i \in 1..Len(digits) : ~IsDigit(digits[i]) THEN None
        ELSE Some(DecimalValueWrapping(digits, 0))

\* str::parse::<u8>(): an optional '+', then one or more digits, value <= 255
parse_u8(s) ==
    LET digits == IF s # <<>> /\ Head(s) = "+" THEN Tail(s) ELSE s
    IN  IF digits = <<>> THEN None
        ELSE IF \E i \in 1..Len(digits) : ~IsDigit(digits[i]) THEN None
        ELSE IF DecimalValue(digits, 0) > U8_MAX THEN None
        ELSE Some(DecimalValue(digits, 0))

starts_with(s, p) == Len(s) >= Len(p) /\ SubSeq(s, 1, Len(p)) = p

\* str::strip_prefix: Some(rest) when s starts with p
strip_prefix(s, p) ==
    IF starts_with(s, p) THEN Some(SubSeq(s, Len(p) + 1, Len(s))) ELSE None

\* position of the first c in s, 0 when there is none
FirstIndex(s, c) ==
    IF \E i \in 1..Len(s) : s[i] = c
    THEN CHOOSE i \in 1..Len(s) : s[i] = c /\ \A j \in 1..(i - 1) : s[j] # c
    ELSE 0

\* str::split(c): the pieces between the occurrences of c, at least one piece
RECURSIVE split(_, _)
split(s, c) ==
    LET i == FirstIndex(s, c)
    IN  IF i = 0 THEN <<s>>
        ELSE <<SubSeq(s, 1, i - 1)>> \o split(SubSeq(s, i + 1, Len(s)), c)

\* str::trim_start / trim_end / trim
RECURSIVE trim_start(_)
trim_start(s) ==
    IF s # <<>> /\ IsWhitespace(Head(s)) THEN trim_start(Tail(s)) ELSE s

RECURSIVE trim_end(_)
trim_end(s) ==
    IF s # <<>> /\ IsWhitespace(s[Len(s)])
    THEN trim_end(SubSeq(s, 1, Len(s) - 1)) ELSE s

trim(s) == trim_end(trim_start(s))

\* str::split_whitespace: the maximal runs of non-whitespace characters
RECURSIVE split_whitespace(_)
split_whitespace(s) ==
    LET t == trim_start(s)
    IN  IF t = <<>> THEN <<>>
        ELSE LET ws == {i \in 1..Len(t) : IsWhitespace(t[i])}
                 e  == IF ws = {} THEN Len(t) + 1
                       ELSE CHOOSE i \in ws : \A j \in ws : i <= j
             IN  <<SubSeq(t, 1, e - 1)>> \o split_whitespace(SubSeq(t, e, Len(t)))

\* str::lines().next(): None for the empty text, else the text before the
\* first line feed, without the carriage return that may precede it
first_line(s) ==
    IF s = <<>> THEN None
    ELSE LET i == FirstIndex(s, "\n")
             l == IF i = 0 THEN s ELSE SubSeq(s, 1, i - 1)
         IN  IF i # 0 /\ l # <<>> /\ l[Len(l)] = "\r"
             THEN Some(SubSeq(l, 1, Len(l) - 1))
             ELSE Some(l)

\* the byte length of a text given as a sequence of chunks
RECURSIVE ByteLen(_)
ByteLen(chunks) ==
    IF chunks = <<>> THEN 0 ELSE Len(Head(chunks)) + ByteLen(Tail(chunks))

-----------------------------------------------------------------------------
(* HTTP router: http_server.rs *)

\* string literals of the router, as character sequences
GET == <<"G", "E", "T">>

ROOT_PATH == <<"/">>

HEALTH_PATH == <<"/", "h", "e", "a", "l", "t", "h">>

SERVO_PREFIX == <<"/", "s", "e", "r", "v", "o">>

SERVO_SLASH == <<"/", "s", "e", "r", "v", "o", "/">>

SERVO_QUERY == <<"/", "s", "e", "r", "v", "o", "?">>

ANGLE_EQ == <<"a", "n", "g", "l", "e", "=">>

\* the upper end of the accepted angle range, in degrees
MAX_ANGLE == 180

\* variant: the upper end excluded
angle_in_range_exclusive(angle) == angle < MAX_ANGLE

\* variant: no check beyond the width of u8
angle_in_range_u8(angle) == angle <= U8_MAX

\* the range check applied to an extracted angle
angle_in_range(angle) == angle <= MAX_ANGLE

\* the test that routes a GET path to the servo handler
is_servo_route(path) == starts_with(path, SERVO_PREFIX)

\* build_response: the status line, the headers and the body of one response;
\* Content-Length is the byte length of the body
build_response(status, content_type, body) ==
    [status         |-> status,
     content_type   |-> content_type,
     content_length |-> ByteLen(body),
     connection     |-> "close",
     body           |-> body]

\* the bytes of the formatted response: "HTTP/1.1 {}\r\nContent-Type: {}\r\n
\* Content-Length: {}\r\nConnection: close\r\n\r\n{}"
response_len(r) ==
    Len("HTTP/1.1 ") + Len(r.status) + Len("\r\nContent-Type: ")
    + Len(r.content_type) + Len("\r\nContent-Length: ")
    + Len(to_string(r.content_length)) + Len("\r\nConnection: close\r\n\r\n")
    + ByteLen(r.body)

\* variant: a request line without a path is given the path /
parse_request_default_path(req) ==
    LET line == first_line(req)
    IN  IF line = None THEN None
        ELSE LET parts == split_whitespace(Unwrap(line))
             IN  IF Len(parts) < 1 THEN None
                 ELSE IF Len(parts) < 2 THEN Some(<<parts[1], <<"/">> >>)
                 ELSE Some(<<parts[1], parts[2]>>)

\* parse_request: Some(<<method, path>>), the first two whitespace-separated
\* words of the first line
parse_request(req) ==
    LET line == first_line(req)
    IN  IF line = None THEN None
        ELSE LET parts == split_whitespace(Unwrap(line))
             IN  IF Len(parts) < 2 THEN None
                 ELSE Some(<<parts[1], parts[2]>>)

\* variant: only the first part is looked at
angle_of_first_part(parts) ==
    LET value == strip_prefix(Head(parts), <<"a", "n", "g", "l", "e", "=">>)
    IN  IF IsSome(value) THEN parse_u8(Unwrap(value)) ELSE None

\* the for loop over the '&'-separated parts: the value of the first part
\* that starts with "angle=" decides
RECURSIVE angle_of_parts(_)
angle_of_parts(parts) ==
    IF parts = <<>> THEN None
    ELSE LET value == strip_prefix(Head(parts), ANGLE_EQ)
         IN  IF IsSome(value) THEN parse_u8(Unwrap(value))
             ELSE angle_of_parts(Tail(parts))

\* parse_servo_angle: the angle of /servo/<n> or of /servo?...angle=<n>...
parse_servo_angle(path) ==
    LET angle_str == strip_prefix(path, SERVO_SLASH)
    IN  IF IsSome(angle_str) THEN parse_u8(Unwrap(angle_str))
        ELSE IF starts_with(path, SERVO_QUERY)
        THEN angle_of_parts(split(split(path, "?")[2], "&"))
        ELSE None

\* the body {"angle": N}
angle_body(angle) == <<"{\"angle\": ">> \o to_string(angle) \o <<"}">>

\* variant: the parsed angle is signalled before the method and the range
\* are looked at
handle_request_signal_unchecked(req) ==
    LET parsed == parse_request(req)
    IN  IF parsed = None
        THEN [response |-> build_response("400 Bad Request", "text/plain",
                                          <<"Bad Request">>),
              signal   |-> None]
        ELSE
        LET method == Unwrap(parsed)[1]
            path   == Unwrap(parsed)[2]
            angle  == IF is_servo_route(path) THEN parse_servo_angle(path)
                      ELSE None
        IN  IF method # GET
            THEN [response |-> build_response("405 Method Not Allowed",
                     "application/json", <<"{\"error\": \"Method Not Allowed\"}">>),
                  signal   |-> angle]
            ELSE IF path = ROOT_PATH \/ path = HEALTH_PATH
            THEN [response |-> build_response("200 OK", "application/json",
                     <<"{\"healthy\": true}">>),
                  signal   |-> None]
            ELSE IF ~is_servo_route(path)
            THEN [response |-> build_response("404 Not Found", "application/json",
                     <<"{\"error\": \"Not Found\"}">>),
                  signal   |-> None]
            ELSE IF IsSome(angle) /\ angle_in_range(Unwrap(angle))
            THEN [response |-> build_response("200 OK", "application/json",
                     angle_body(Unwrap(angle))),
                  signal   |-> angle]
            ELSE [response |-> build_response("400 Bad Request",
                     "application/json",
                     <<"{\"error\": \"Angle must be between 0 and 180\"}">>),
                  signal   |-> angle]

\* handle_request: the response, and the angle it signals on SERVO_ANGLE
handle_request(req) ==
    LET parsed == parse_request(req)
    IN  IF parsed = None
        THEN [response |-> build_response("400 Bad Request", "text/plain",
                                          <<"Bad Request">>),
              signal   |-> None]
        ELSE
        LET method == Unwrap(parsed)[1]
            path   == Unwrap(parsed)[2]
        IN  IF method = GET
            THEN IF path = ROOT_PATH
                 THEN [response |-> build_response("200 OK", "application/json",
                          <<"{\"status\": \"ok\", \"message\": \"ESP32 Servo Controller\", \"endpoints\": [\"/servo/<angle>\", \"/servo?angle=<0-180>\"]}">>),
                       signal   |-> None]
                 ELSE IF path = HEALTH_PATH
                 THEN [response |-> build_response("200 OK", "application/json",
                          <<"{\"healthy\": true}">>),
                       signal   |-> None]
                 ELSE IF is_servo_route(path)
                 THEN LET angle == parse_servo_angle(path)
                      IN  IF IsSome(angle)
                          THEN IF angle_in_range(Unwrap(angle))
                               THEN [response |-> build_response("200 OK",
                                        "application/json", angle_body(Unwrap(angle))),
                                     signal   |-> Some(Unwrap(angle))]
                               ELSE [response |-> build_response("400 Bad Request",
                                        "application/json",
                                        <<"{\"error\": \"Angle must be between 0 and 180\"}">>),
                                     signal   |-> None]
                          ELSE [response |-> build_response("400 Bad Request",
                                   "application/json",
                                   <<"{\"error\": \"Missing or invalid angle parameter. Use /servo/90 or /servo?angle=90\"}">>),
                                signal   |-> None]
                 ELSE [response |-> build_response("404 Not Found", "application/json",
                          <<"{\"error\": \"Not Found\"}">>),
                       signal   |-> None]
            ELSE [response |-> build_response("405 Method Not Allowed",
                     "application/json", <<"{\"error\": \"Method Not Allowed\"}">>),
                  signal   |-> None]

-----------------------------------------------------------------------------
(* Serial command parser: serial_cmd.rs *)

\* variant: the prefixes without a space are left out
PREFIXES_spaced == <<<<"s", "e", "r", "v", "o", " ">>,
                     <<"a", "n", "g", "l", "e", " ">>,
                     <<"s", " ">>,
                     <<"a", " ">>>>

\* the prefixes tried in order
PREFIXES == <<<<"s", "e", "r", "v", "o", " ">>,
              <<"a", "n", "g", "l", "e", " ">>,
              <<"s", " ">>,
              <<"a", " ">>,
              <<"s">>,
              <<"a">>>>

\* one iteration of the prefix loop: Some(angle) when the prefix matches and
\* the rest parses to an angle in range
prefix_angle(input, prefix) ==
    LET rest == strip_prefix(input, prefix)
    IN  IF rest = None THEN None
        ELSE LET angle == parse_u8(trim(Unwrap(rest)))
             IN  IF IsSome(angle) /\ Unwrap(angle) <= MAX_ANGLE THEN angle ELSE None

\* parse_servo_command: a bare number, or a number after one of the prefixes
parse_servo_command(raw) ==
    LET input  == trim(raw)
        direct == parse_u8(input)
        hits   == {i \in 1..Len(PREFIXES) : IsSome(prefix_angle(input, PREFIXES[i]))}
    IN  IF IsSome(direct) /\ Unwrap(direct) <= MAX_ANGLE THEN direct
        ELSE IF hits = {} THEN None
        ELSE prefix_angle(input, PREFIXES[CHOOSE i \in hits : \A j \in hits : i <= j])

-----------------------------------------------------------------------------
(* Servo duty mapping: servo.rs *)

SERVO_FREQ_HZ == 50

MIN_PULSE_US == 500

MAX_PULSE_US == 2500

PERIOD_US == 1000000 \div SERVO_FREQ_HZ

DUTY_RESOLUTION == 16384

\* angle.min(180)
clamp_angle(angle) == IF angle < MAX_ANGLE THEN angle ELSE MAX_ANGLE

\* the u32 product (MAX_PULSE_US - MIN_PULSE_US) * angle
pulse_product(angle) == (MAX_PULSE_US - MIN_PULSE_US) * clamp_angle(angle)

\* variant: the division by 180 is made before the multiplication
pulse_us_divide_first(angle) ==
    MIN_PULSE_US + ((MAX_PULSE_US - MIN_PULSE_US) \div 180) * clamp_angle(angle)

\* pulse width for the angle, truncating division
pulse_us(angle) == MIN_PULSE_US + pulse_product(angle) \div 180

\* the u32 product pulse_us * DUTY_RESOLUTION
duty_product(angle) == pulse_us(angle) * DUTY_RESOLUTION

\* the raw duty value set_angle writes with set_duty_hw
duty_raw(angle) == duty_product(angle) \div PERIOD_US

-----------------------------------------------------------------------------
(* Bounds of the model *)

\* connections the HTTP server accepts in one run
MaxRequests == 3

\* failed association attempts in one run
MaxFailures == 2

\* disassociation events in one run
MaxDisconnects == 2

\* command lines the UART receives in one run
MaxLines == 2

\* '&'-joined pairs in an enumerated query string
MaxPairs == 3

\* bytes of a stream that wait unread in the UART's receive FIFO
MaxPending == 2

-----------------------------------------------------------------------------
(* Signal<CriticalSectionRawMutex, u8>: one slot, the newest value wins *)

\* variant: a value is stored only in an empty slot
signal_if_empty(slot, value) == IF IsSome(slot) THEN slot ELSE Some(value)

\* Signal::signal(value): store the value, replacing an unread one
signal(slot, value) == Some(value)

\* Signal::wait() is ready when a value is stored; taking it empties the slot
signal_ready(slot) == IsSome(slot)

-----------------------------------------------------------------------------
(* Durations, in milliseconds, and angles of main *)

\* the cooldown of the connection task
COOLDOWN_MS == 5000

\* the angle main sets before bring-up
BOOT_ANGLE == 90

\* a panic (unwrap on an error) halts the device: no task runs any more
Halted == pc_conn = "panicked"

-----------------------------------------------------------------------------
(* The radio and the access point, as the connection task sees them *)

\* the access point starts accepting associations
ApUp ==
    /\ ~apAccepts
    /\ apAccepts' = TRUE
    /\ UNCHANGED <<staState, started, discEvent, pc_conn, netVars, mainVars,
                   httpVars, SERVO_ANGLE, SERIAL_SERVO_ANGLE, serialVars, hist>>

\* the access point stops accepting associations
ApDown ==
    /\ apAccepts
    /\ apAccepts' = FALSE
    /\ UNCHANGED <<staState, started, discEvent, pc_conn, netVars, mainVars,
                   httpVars, SERVO_ANGLE, SERIAL_SERVO_ANGLE, serialVars, hist>>

\* WifiEvent::StaDisconnected: the station loses its association
Disassociate ==
    /\ staState = "Connected"
    /\ hist.disconnects < MaxDisconnects
    /\ staState' = "Disconnected"
    /\ discEvent' = TRUE
    /\ hist' = [hist EXCEPT !.disconnects = @ + 1]
    /\ UNCHANGED <<started, apAccepts, pc_conn, netVars, mainVars, httpVars,
                   SERVO_ANGLE, SERIAL_SERVO_ANGLE, serialVars>>

-----------------------------------------------------------------------------
(* net_task: the IP stack follows the station's link *)

\* the stack sees the link come up
NetLinkUp ==
    /\ ~Halted
    /\ staState = "Connected" /\ ~linkUp
    /\ linkUp' = TRUE
    /\ hist' = [hist EXCEPT !.linkEverUp = TRUE]
    /\ UNCHANGED <<ipv4, linkVars, mainVars, httpVars, SERVO_ANGLE,
                   SERIAL_SERVO_ANGLE, serialVars>>

\* the stack sees the link go down and drops its DHCP configuration
NetLinkDown ==
    /\ ~Halted
    /\ staState # "Connected" /\ linkUp
    /\ linkUp' = FALSE
    /\ ipv4' = FALSE
    /\ UNCHANGED <<linkVars, mainVars, httpVars, SERVO_ANGLE,
                   SERIAL_SERVO_ANGLE, serialVars, hist>>

\* DHCP acquires an address over the link
DhcpBound ==
    /\ ~Halted
    /\ linkUp /\ ~ipv4
    /\ ipv4' = TRUE
    /\ hist' = [hist EXCEPT !.ipEverBound = TRUE]
    /\ UNCHANGED <<linkUp, linkVars, mainVars, httpVars, SERVO_ANGLE,
                   SERIAL_SERVO_ANGLE, serialVars>>

-----------------------------------------------------------------------------
(* connection task: main.rs, connection *)

\* the is_started check and what follows it up to the next await
after_started_check == IF ~started THEN "starting" ELSE "connecting"

\* loop head: match sta_state(); when Connected, wait_for_event begins and
\* forgets the events that fired before it
conn_top ==
    /\ pc_conn = "top"
    /\ IF staState = "Connected"
       THEN /\ pc_conn' = "wait_disconnected"
            /\ discEvent' = FALSE
       ELSE /\ pc_conn' = after_started_check
            /\ UNCHANGED discEvent
    /\ UNCHANGED <<staState, started, apAccepts, netVars, mainVars, httpVars,
                   SERVO_ANGLE, SERIAL_SERVO_ANGLE, serialVars, hist>>

\* variant: no cooldown after the disconnect event
conn_disconnected_no_cooldown ==
    /\ pc_conn = "wait_disconnected"
    /\ discEvent
    /\ pc_conn' = after_started_check
    /\ UNCHANGED <<staState, started, discEvent, apAccepts, netVars, mainVars,
                   httpVars, SERVO_ANGLE, SERIAL_SERVO_ANGLE, serialVars, hist>>

\* wait_for_event(StaDisconnected) returns; the 5000 ms timer is armed
conn_disconnected ==
    /\ pc_conn = "wait_disconnected"
    /\ discEvent
    /\ pc_conn' = "cooldown_disconnected"
    /\ hist' = [hist EXCEPT !.cooldown_ms = COOLDOWN_MS]
    /\ UNCHANGED <<staState, started, discEvent, apAccepts, netVars, mainVars,
                   httpVars, SERVO_ANGLE, SERIAL_SERVO_ANGLE, serialVars>>

\* the timer after a disconnect fires; the is_started check follows
conn_cooldown_disconnected_done ==
    /\ pc_conn = "cooldown_disconnected"
    /\ pc_conn' = after_started_check
    /\ hist' = [hist EXCEPT !.cooldown_ms = 0, !.sinceAttempt = "cooled"]
    /\ UNCHANGED <<staState, started, discEvent, apAccepts, netVars, mainVars,
                   httpVars, SERVO_ANGLE, SERIAL_SERVO_ANGLE, serialVars>>

\* set_config and start_async succeed
conn_start_ok ==
    /\ pc_conn = "starting"
    /\ started' = TRUE
    /\ staState' = "Started"
    /\ pc_conn' = "connecting"
    /\ UNCHANGED <<discEvent, apAccepts, netVars, mainVars, httpVars,
                   SERVO_ANGLE, SERIAL_SERVO_ANGLE, serialVars, hist>>

\* start_async fails: unwrap panics
conn_start_err ==
    /\ pc_conn = "starting"
    /\ pc_conn' = "panicked"
    /\ UNCHANGED <<staState, started, discEvent, apAccepts, netVars, mainVars,
                   httpVars, SERVO_ANGLE, SERIAL_SERVO_ANGLE, serialVars, hist>>

\* connect_async returns Ok
conn_connect_ok ==
    /\ pc_conn = "connecting"
    /\ apAccepts
    /\ staState' = "Connected"
    /\ pc_conn' = "top"
    /\ hist' = [hist EXCEPT !.sinceAttempt = "attempted"]
    /\ UNCHANGED <<started, discEvent, apAccepts, netVars, mainVars, httpVars,
                   SERVO_ANGLE, SERIAL_SERVO_ANGLE, serialVars>>

\* connect_async returns Err; the 5000 ms timer is armed
conn_connect_err ==
    /\ pc_conn = "connecting"
    /\ ~apAccepts
    /\ hist.failures < MaxFailures
    /\ staState' = "Disconnected"
    /\ pc_conn' = "cooldown_failed"
    /\ hist' = [hist EXCEPT !.failures = @ + 1, !.cooldown_ms = COOLDOWN_MS,
                            !.sinceAttempt = "attempted"]
    /\ UNCHANGED <<started, discEvent, apAccepts, netVars, mainVars, httpVars,
                   SERVO_ANGLE, SERIAL_SERVO_ANGLE, serialVars>>

\* variant: the task returns after the second failed attempt
conn_cooldown_failed_give_up ==
    /\ pc_conn = "cooldown_failed"
    /\ pc_conn' = IF hist.failures >= 2 THEN "returned" ELSE "top"
    /\ hist' = [hist EXCEPT !.cooldown_ms = 0]
    /\ UNCHANGED <<staState, started, discEvent, apAccepts, netVars, mainVars,
                   httpVars, SERVO_ANGLE, SERIAL_SERVO_ANGLE, serialVars>>

\* the timer after a failed attempt fires; back to the loop head
conn_cooldown_failed_done ==
    /\ pc_conn = "cooldown_failed"
    /\ pc_conn' = "top"
    /\ hist' = [hist EXCEPT !.cooldown_ms = 0, !.sinceAttempt = "cooled"]
    /\ UNCHANGED <<staState, started, discEvent, apAccepts, netVars, mainVars,
                   httpVars, SERVO_ANGLE, SERIAL_SERVO_ANGLE, serialVars>>

connection ==
    /\ ~Halted
    /\ \/ conn_top
       \/ conn_disconnected
       \/ conn_cooldown_disconnected_done
       \/ conn_start_ok
       \/ conn_start_err
       \/ conn_connect_ok
       \/ conn_connect_err
       \/ conn_cooldown_failed_done

-----------------------------------------------------------------------------
(* main: bring-up and control loop *)

\* stack.is_link_up()
stack_is_link_up == linkUp

\* stack.config_v4() is Some
stack_has_config_v4 == ipv4

\* what main does once an address is present: spawn the HTTP server and
\* enter the control loop
main_start_services ==
    /\ pc_main' = "loop"
    /\ httpSpawned' = TRUE
    /\ pc_http' = "accept"

\* the first polling loop; when the link is up the second loop's first
\* check follows without an await in between
main_link_poll ==
    /\ ~Halted
    /\ pc_main = "link_wait"
    /\ IF stack_is_link_up
       THEN IF stack_has_config_v4
            THEN /\ main_start_services
                 /\ hist' = [hist EXCEPT !.linkSeen = TRUE, !.ipSeen = TRUE]
            ELSE /\ pc_main' = "ip_wait"
                 /\ hist' = [hist EXCEPT !.linkSeen = TRUE]
                 /\ UNCHANGED <<httpSpawned, pc_http>>
       ELSE UNCHANGED <<pc_main, httpSpawned, pc_http, hist>>
    /\ UNCHANGED <<linkVars, netVars, duty_hw, request, response, offset,
                   SERVO_ANGLE, SERIAL_SERVO_ANGLE, serialVars>>

\* variant: the second loop gives up after one poll
main_ip_poll_once ==
    /\ ~Halted
    /\ pc_main = "ip_wait"
    /\ main_start_services
    /\ hist' = [hist EXCEPT !.ipSeen = stack_has_config_v4]
    /\ UNCHANGED <<linkVars, netVars, duty_hw, request, response, offset,
                   SERVO_ANGLE, SERIAL_SERVO_ANGLE, serialVars>>

\* the second polling loop, after its 500 ms timer fired
main_ip_poll ==
    /\ ~Halted
    /\ pc_main = "ip_wait"
    /\ IF stack_has_config_v4
       THEN /\ main_start_services
            /\ hist' = [hist EXCEPT !.ipSeen = TRUE]
       ELSE UNCHANGED <<pc_main, httpSpawned, pc_http, hist>>
    /\ UNCHANGED <<linkVars, netVars, duty_hw, request, response, offset,
                   SERVO_ANGLE, SERIAL_SERVO_ANGLE, serialVars>>

\* variant: an angle equal to the last one applied is dropped
control_loop_debounced ==
    /\ ~Halted
    /\ pc_main = "loop"
    /\ signal_ready(SERVO_ANGLE)
    /\ LET angle == Unwrap(SERVO_ANGLE)
       IN  /\ SERVO_ANGLE' = None
           /\ IF hist.lastAngle = Some(angle)
              THEN UNCHANGED <<duty_hw, hist>>
              ELSE /\ duty_hw' = duty_raw(angle)
                   /\ hist' = [hist EXCEPT !.applied = @ + 1,
                                           !.lastAngle = Some(angle)]
    /\ UNCHANGED <<linkVars, netVars, pc_main, httpSpawned, httpVars,
                   SERIAL_SERVO_ANGLE, serialVars>>

\* the control loop: SERVO_ANGLE.wait() returns the stored angle and empties
\* the slot, then servo.set_angle(angle)
control_loop ==
    /\ ~Halted
    /\ pc_main = "loop"
    /\ signal_ready(SERVO_ANGLE)
    /\ LET angle == Unwrap(SERVO_ANGLE)
       IN  /\ SERVO_ANGLE' = None
           /\ duty_hw' = duty_raw(angle)
           /\ hist' = [hist EXCEPT !.applied = @ + 1,
                                   !.lastAngle = Some(angle),
                                   !.repeated = @ \/ hist.lastAngle = Some(angle),
                                   !.appSeq = Append(@, angle)]
    /\ UNCHANGED <<linkVars, netVars, pc_main, httpSpawned, httpVars,
                   SERIAL_SERVO_ANGLE, serialVars>>

-----------------------------------------------------------------------------
(* http_server_task: http_server.rs *)

\* socket.accept(80) returns Ok: a client connected
http_accept_ok ==
    /\ pc_http = "accept"
    /\ hist.requests < MaxRequests
    /\ pc_http' = "read"
    /\ hist' = [hist EXCEPT !.requests = @ + 1]
    /\ UNCHANGED <<linkVars, netVars, mainVars, request, response, offset,
                   SERVO_ANGLE, SERIAL_SERVO_ANGLE, serialVars>>

\* socket.accept(80) returns Err: continue with a new socket
http_accept_err ==
    /\ pc_http = "accept"
    /\ UNCHANGED vars

\* socket.read returns Ok(n), n > 0, and the bytes are UTF-8: handle_request
\* runs, and the first socket.write is awaited
http_read_request(reqs) ==
    /\ pc_http = "read"
    /\ \E req \in reqs :
         LET handled == handle_request(req)
         IN  /\ request' = req
             /\ response' = Some(handled.response)
             /\ offset' = 0
             /\ pc_http' = "write"
             /\ IF IsSome(handled.signal)
                THEN /\ SERVO_ANGLE' = signal(SERVO_ANGLE, Unwrap(handled.signal))
                     /\ hist' = [hist EXCEPT
                            !.accepted = @ + 1,
                            !.overwritten = IF IsSome(SERVO_ANGLE) THEN @ + 1 ELSE @,
                            !.published = handled.signal,
                            !.slotBefore = SERVO_ANGLE,
                            !.read = "text",
                            !.pubSeq = Append(@, Unwrap(handled.signal))]
                ELSE /\ UNCHANGED SERVO_ANGLE
                     /\ hist' = [hist EXCEPT !.published = None,
                                             !.slotBefore = SERVO_ANGLE,
                                             !.read = "text"]
    /\ UNCHANGED <<linkVars, netVars, mainVars, SERIAL_SERVO_ANGLE, serialVars>>

\* socket.read returns Ok(0) or Err (the 10 s timeout included): no
\* response; socket.close() and the 100 ms timer
http_read_nothing ==
    /\ pc_http = "read"
    /\ pc_http' = "delay"
    /\ hist' = [hist EXCEPT !.read = "closed"]
    /\ UNCHANGED <<linkVars, netVars, mainVars, request, response, offset,
                   SERVO_ANGLE, SERIAL_SERVO_ANGLE, serialVars>>

\* socket.read returns Ok(n), n > 0, and from_utf8 fails on the bytes:
\* handle_request is not called and nothing is written; socket.close() and
\* the 100 ms timer
http_read_not_utf8 ==
    /\ pc_http = "read"
    /\ pc_http' = "delay"
    /\ hist' = [hist EXCEPT !.read = "binary"]
    /\ UNCHANGED <<linkVars, netVars, mainVars, request, response, offset,
                   SERVO_ANGLE, SERIAL_SERVO_ANGLE, serialVars>>

\* the byte counts one socket.write may report: all that is left, or half
write_sizes(left) == {left} \cup {n \in {(left + 1) \div 2} : offset = 0}

\* socket.write returns Ok(written); after the last byte socket.close() and
\* the 100 ms timer follow
http_write_ok ==
    /\ pc_http = "write"
    /\ \E written \in write_sizes(response_len(Unwrap(response)) - offset) :
         /\ offset' = offset + written
         /\ pc_http' = IF offset' < response_len(Unwrap(response))
                       THEN "write" ELSE "delay"
    /\ UNCHANGED <<linkVars, netVars, mainVars, request, response,
                   SERVO_ANGLE, SERIAL_SERVO_ANGLE, serialVars, hist>>

\* socket.write returns Err: break, socket.close() and the 100 ms timer
http_write_err ==
    /\ pc_http = "write"
    /\ pc_http' = "delay"
    /\ hist' = [hist EXCEPT !.writeError = TRUE]
    /\ UNCHANGED <<linkVars, netVars, mainVars, request, response, offset,
                   SERVO_ANGLE, SERIAL_SERVO_ANGLE, serialVars>>

\* the 100 ms timer fires: next iteration with fresh buffers
http_delay_done ==
    /\ pc_http = "delay"
    /\ pc_http' = "accept"
    /\ request' = <<>>
    /\ response' = None
    /\ offset' = 0
    /\ hist' = [hist EXCEPT !.published = None, !.slotBefore = None,
                            !.read = "none", !.writeError = FALSE]
    /\ UNCHANGED <<linkVars, netVars, mainVars, SERVO_ANGLE,
                   SERIAL_SERVO_ANGLE, serialVars>>

http_server_task(reqs) ==
    /\ ~Halted
    /\ \/ http_accept_ok
       \/ http_accept_err
       \/ http_read_request(reqs)
       \/ http_read_nothing
       \/ http_read_not_utf8
       \/ http_write_ok
       \/ http_write_err
       \/ http_delay_done

-----------------------------------------------------------------------------
(* serial_input_task: serial_cmd.rs *)

\* buffer.len(): the size of the line buffer
BUFFER_LEN == 64

\* a byte that occurs in no UTF-8 text
INVALID_BYTE == "0xFF"

\* core::str::from_utf8(&buffer[..pos]) is Ok
from_utf8_ok(bytes) == \A i \in 1..Len(bytes) : bytes[i] # INVALID_BYTE

\* what a line terminator does to the buffer, the slot and the notice: a
\* non-empty buffer that is UTF-8 is parsed, its angle signalled or an
\* unknown command reported, and pos is reset
serial_line_end ==
    IF Len(buffer) > 0
    THEN /\ buffer' = <<>>
         /\ IF from_utf8_ok(buffer)
            THEN LET angle == parse_servo_command(buffer)
                 IN  IF IsSome(angle)
                     THEN /\ SERIAL_SERVO_ANGLE'
                               = signal(SERIAL_SERVO_ANGLE, Unwrap(angle))
                          /\ hist' = [hist EXCEPT !.notice = "setting",
                                                  !.serialPublished = @ + 1]
                     ELSE /\ UNCHANGED SERIAL_SERVO_ANGLE
                          /\ hist' = [hist EXCEPT !.notice =
                                 IF trim(buffer) # <<>> THEN "unknown" ELSE "none"]
            ELSE /\ UNCHANGED SERIAL_SERVO_ANGLE
                 /\ hist' = [hist EXCEPT !.notice = "none"]
    ELSE /\ UNCHANGED <<buffer, SERIAL_SERVO_ANGLE>>
         /\ hist' = [hist EXCEPT !.notice = "none"]

\* variant: no test of pos against the buffer length
push_byte_unchecked(buf, byte) == Append(buf, byte)

\* variant: the test leaves two bytes of the buffer unused
push_byte_short(buf, byte) ==
    IF Len(buf) < BUFFER_LEN - 2 THEN Append(buf, byte) ELSE buf

\* buffer[pos] = byte; pos += 1 while pos < buffer.len() - 1, else the byte
\* is dropped
push_byte(buf, byte) ==
    IF Len(buf) < BUFFER_LEN - 1 THEN Append(buf, byte) ELSE buf

\* one turn of the loop: when a byte is ready it is read, echoed and
\* processed; when none is, the 10 ms timer is awaited
serial_poll ==
    /\ pc_serial = "poll"
    /\ IF rxq # <<>>
       THEN LET byte == Head(rxq)
            IN  /\ rxq' = Tail(rxq)
                /\ pc_serial' = "poll"
                /\ IF byte = "\r" \/ byte = "\n"
                   THEN serial_line_end
                   ELSE /\ buffer' = push_byte(buffer, byte)
                        /\ hist' = [hist EXCEPT !.notice = "none"]
                        /\ UNCHANGED SERIAL_SERVO_ANGLE
       ELSE /\ pc_serial' = "sleep"
            /\ UNCHANGED <<rxq, buffer, SERIAL_SERVO_ANGLE, hist>>
    /\ UNCHANGED <<linkVars, netVars, mainVars, httpVars, SERVO_ANGLE>>

\* uart.read returns something other than Ok(1) although a byte is ready:
\* the loop goes round without a wait
serial_read_other ==
    /\ pc_serial = "poll"
    /\ rxq # <<>>
    /\ UNCHANGED vars

\* the 10 ms timer fires
serial_wake ==
    /\ pc_serial = "sleep"
    /\ pc_serial' = "poll"
    /\ UNCHANGED <<linkVars, netVars, mainVars, httpVars, SERVO_ANGLE,
                   SERIAL_SERVO_ANGLE, rxq, buffer, hist>>

serial_input_task ==
    /\ ~Halted
    /\ \/ serial_poll
       \/ serial_read_other
       \/ serial_wake

\* the UART receives one more byte of a stream while earlier bytes may still
\* wait in its receive FIFO
uart_stream ==
    /\ ~Halted
    /\ Len(rxq) < MaxPending
    /\ rxq' = Append(rxq, "x")
    /\ UNCHANGED <<linkVars, netVars, mainVars, httpVars, SERVO_ANGLE,
                   SERIAL_SERVO_ANGLE, pc_serial, buffer, hist>>

\* the UART receives the bytes of one line
uart_receive(lines) ==
    /\ rxq = <<>>
    /\ hist.lines < MaxLines
    /\ \E line \in lines : rxq' = line
    /\ hist' = [hist EXCEPT !.lines = @ + 1]
    /\ UNCHANGED <<linkVars, netVars, mainVars, httpVars, SERVO_ANGLE,
                   SERIAL_SERVO_ANGLE, pc_serial, buffer>>

-----------------------------------------------------------------------------
(* Inputs *)

SP == <<" ">>

CRLF == <<"\r", "\n">>

HTTP_1_1 == <<"H", "T", "T", "P", "/", "1", ".", "1">>

POST == <<"P", "O", "S", "T">>

\* a request as a client sends it: request line, one header, blank line
http_request(method, path) ==
    method \o SP \o path \o SP \o HTTP_1_1 \o CRLF
    \o <<"H", "o", "s", "t", ":", " ", "e", "s", "p">> \o CRLF \o CRLF

\* GET /servo/<n>
servo_path(n) == SERVO_SLASH \o to_string(n)

\* the pair angle=<n>
angle_pair(n) == ANGLE_EQ \o to_string(n)

\* pairs joined by '&'
RECURSIVE join_pairs(_)
join_pairs(pairs) ==
    IF Len(pairs) = 1 THEN pairs[1]
    ELSE pairs[1] \o <<"&">> \o join_pairs(Tail(pairs))

\* GET /servo?<pairs joined by '&'>
query_path(pairs) == SERVO_QUERY \o join_pairs(pairs)

\* angles put in the path /servo/<n>: every u8 and some larger numbers
PathNumbers == (0..U8_MAX) \cup {256, 300, 1000, 65536, 99999}

\* /servo... paths that carry no well-formed angle, or carry it oddly
OddServoPaths ==
    {<<"/", "s", "e", "r", "v", "o">>,
     <<"/", "s", "e", "r", "v", "o", "/">>,
     <<"/", "s", "e", "r", "v", "o", "x">>,
     <<"/", "s", "e", "r", "v", "o", "9", "0">>,
     <<"/", "s", "e", "r", "v", "o", "/", "a", "b", "c">>,
     <<"/", "s", "e", "r", "v", "o", "/", "+", "9", "0">>,
     <<"/", "s", "e", "r", "v", "o", "/", "-", "1">>,
     <<"/", "s", "e", "r", "v", "o", "/", "0", "9", "0">>,
     <<"/", "s", "e", "r", "v", "o", "/", "9", "x">>,
     <<"/", "s", "e", "r", "v", "o", "/", "9", "0", "/">>,
     <<"/", "s", "e", "r", "v", "o", "/", "1", "e", "2">>,
     <<"/", "s", "e", "r", "v", "o", "?">>,
     <<"/", "s", "e", "r", "v", "o", "?", "x", "=", "1">>,
     <<"/", "s", "e", "r", "v", "o", "?", "a", "n", "g", "l", "e", "=">>,
     <<"/", "s", "e", "r", "v", "o", "?", "a", "n", "g", "l", "e">>,
     <<"/", "s", "e", "r", "v", "o", "/", "?", "a", "n", "g", "l", "e", "=", "9", "0">>,
     <<"/", "s", "e", "r", "v", "o", "?", "A", "n", "g", "l", "e", "=", "9", "0">>,
     <<"/", "s", "e", "r", "v", "o", "?", "a", "n", "g", "l", "e", "=", "9", "0", "?", "x", "=", "1">>,
     <<"/", "s", "e", "r", "v", "o", "?", "a", "n", "g", "l", "e", "=", "+", "7">>,
     <<"/", "s", "e", "r", "v", "o", "?", "a", "n", "g", "l", "e", "=", "1", "8", "1">>,
     <<"/", "s", "e", "r", "v", "o", "?", "a", "n", "g", "l", "e", "=", "9", "9", "9">>,
     <<"/", "s", "e", "r", "v", "o", "&", "a", "n", "g", "l", "e", "=", "9", "0">>,
     <<"/", "s", "e", "r", "v", "o", "#", "9", "0">>}

\* paths outside /servo
OtherPaths ==
    {<<"/">>,
     <<"/", "h", "e", "a", "l", "t", "h">>,
     <<"/", "n", "o", "n", "e", "x", "i", "s", "t", "e", "n", "t">>,
     <<"/", "h", "e", "a", "l", "t", "h", "z">>,
     <<"/", "s", "e", "r", "v">>,
     <<"/", "S", "e", "r", "v", "o", "/", "9", "0">>,
     <<"/", "i", "n", "d", "e", "x", ".", "h", "t", "m", "l">>,
     <<"/", "h", "e", "a", "l", "t", "h", "/">>,
     <<"/", "/">>}

\* methods other than GET
OtherMethods == {POST, <<"P", "U", "T">>, <<"D", "E", "L", "E", "T", "E">>, <<"H", "E", "A", "D">>}

\* paths sent with the other methods
OtherMethodPaths ==
    {ROOT_PATH, HEALTH_PATH, servo_path(90), query_path(<<angle_pair(90)>>),
     <<"/", "n", "o", "n", "e", "x", "i", "s", "t", "e", "n", "t">>}

\* the pairs an enumerated query string is made of
QueryPairs ==
    {<<"x", "=", "1">>, <<"y", "=", "?">>, <<"a", "n", "g", "l", "e", "=", "a", "b", "c">>, <<>>,
     angle_pair(5), angle_pair(90), angle_pair(200)}

\* the sequences of 1..n elements of S
SeqsUpTo(S, n) == UNION {[1..k -> S] : k \in 1..n}

\* every query of 1..MaxPairs pairs, and every angle alone, first and last
QueryPaths ==
    {query_path(pairs) : pairs \in SeqsUpTo(QueryPairs, MaxPairs)}
    \cup {query_path(<<angle_pair(a)>>) : a \in 0..MAX_ANGLE}
    \cup {query_path(<<angle_pair(a), <<"x", "=", "1">>>>) : a \in 0..MAX_ANGLE}
    \cup {query_path(<<<<"x", "=", "1">>, angle_pair(a)>>) : a \in 0..MAX_ANGLE}

\* request texts whose first line has no method or no path
MalformedRequests ==
    {<<"G", "E", "T">>,
     <<"G", "E", "T", "\r", "\n">>,
     <<"G", "E", "T", " ", "\r", "\n", "/", "s", "e", "r", "v", "o", "/", "9", "0", " ", "H", "T", "T", "P", "/", "1", ".", "1", "\r", "\n">>,
     <<" ">>,
     <<"\r", "\n">>,
     <<"\n">>,
     <<"\r", "\n", "G", "E", "T", " ", "/", "s", "e", "r", "v", "o", "/", "9", "0", " ", "H", "T", "T", "P", "/", "1", ".", "1", "\r", "\n">>,
     <<"/", "s", "e", "r", "v", "o", "/", "9", "0">>,
     <<"G", "E", "T", "\t", "\r", "\n", "\r", "\n">>}

\* well-formed request lines in unusual dress
LooseRequests ==
    {<<"G", "E", "T", " ", "/", "s", "e", "r", "v", "o", "/", "9", "0">>,
     <<" ", "G", "E", "T", " ", "/", "s", "e", "r", "v", "o", "/", "4", "5", " ", "H", "T", "T", "P", "/", "1", ".", "1", "\r", "\n">>,
     <<"G", "E", "T", "\t", "/", "s", "e", "r", "v", "o", "/", "7", "\t", "H", "T", "T", "P", "/", "1", ".", "1", "\r", "\n">>,
     <<"G", "E", "T", " ", " ", "/", "h", "e", "a", "l", "t", "h", "\r", "\n">>,
     <<"G", "E", "T", " ", "/", " ", "\r", "\n">>,
     <<"G", "E", "T", " ", "/", "s", "e", "r", "v", "o", "/", "9", "0", "\n">>,
     <<"G", "E", "T", " ", "/", "s", "e", "r", "v", "o", "/", "9", "0", "\r">>,
     <<"g", "e", "t", " ", "/", "s", "e", "r", "v", "o", "/", "9", "0", " ", "H", "T", "T", "P", "/", "1", ".", "1", "\r", "\n">>,
     <<"G", "e", "t", " ", "/", " ", "H", "T", "T", "P", "/", "1", ".", "1", "\r", "\n">>}

\* the requests of the router specification
HttpRequests ==
    {http_request(GET, servo_path(n)) : n \in PathNumbers}
    \cup {http_request(GET, path) : path \in OddServoPaths \cup OtherPaths \cup QueryPaths}
    \cup {http_request(m, path) : m \in OtherMethods \cup {<<"g", "e", "t">>},
                                  path \in OtherMethodPaths}
    \cup MalformedRequests
    \cup LooseRequests

\* the requests clients send in the system specifications
BusRequests ==
    {http_request(GET, servo_path(90)),
     http_request(GET, servo_path(200)),
     http_request(GET, query_path(<<<<"x", "=", "1">>, angle_pair(180)>>)),
     http_request(POST, servo_path(45))}

\* the requests clients send to the HTTP server specified alone
ServerRequests == BusRequests \cup MalformedRequests \cup LooseRequests

\* the requests clients send in the specification of the whole program
BootRequests ==
    {http_request(GET, servo_path(45)),
     http_request(GET, HEALTH_PATH)}

\* the command lines the UART receives in the system specifications
BusLines ==
    {<<"a", "7", "\r">>,
     <<"2", "0", "0", "\n">>}

\* the line terminators a terminal sends
Terminators == {<<"\r">>, <<"\n">>, <<"\r", "\n">>}

\* n copies of a byte
RECURSIVE repeat(_, _)
repeat(byte, n) == IF n = 0 THEN <<>> ELSE <<byte>> \o repeat(byte, n - 1)

\* the prefixes a command may carry; the first stands for the bare integer
CommandPrefixes == <<<<>>,
                     <<"s", "e", "r", "v", "o", " ">>,
                     <<"a", "n", "g", "l", "e", " ">>,
                     <<"s", " ">>,
                     <<"a", " ">>,
                     <<"s">>,
                     <<"a">>>>

\* the accepted formats: prefix i is CommandPrefixes[i + 1]; pad is the
\* whitespace around the command
CommandCases ==
    [kind : {"command"}, prefix : 0..6, n : 0..MAX_ANGLE,
     pad : {<<>>, <<" ">>}, term : Terminators]

\* line bodies that are no command
RejectBodies ==
    {<<"2", "0", "0">>, <<"1", "8", "1">>, <<"2", "5", "5">>, <<"2", "5", "6">>,
     <<"9", "9", "9", "9">>, <<"a", "b", "c">>, <<"s", "e", "r", "v", "o">>,
     <<"s", "e", "r", "v", "o", " ", "2", "0", "0">>, <<"s", " ", "1", "8", "1">>,
     <<"a", "2", "5", "6">>, <<"s", "e", "r", "v", "o", "4", "5">>,
     <<"a", "n", "g", "l", "e", "9", "0">>, <<"-", "5">>, <<"s", "-", "1">>,
     <<"9", " ", "0">>, <<"s">>, <<"a", " ">>, <<"x", "9", "0">>, <<"9", "0", "x">>,
     <<"S", "9", "0">>, <<"9", "0", ".", "0">>,
     <<" ">>, <<"\t", " ">>,
     <<INVALID_BYTE>>, <<"9", "0", INVALID_BYTE>>, <<INVALID_BYTE, " ", "9", "0">>}

RejectCases == [kind : {"reject"}, body : RejectBodies, term : Terminators]

\* the line that follows an over-long input, and the angle it commands
FollowUps ==
    {[line |-> <<"s", "e", "r", "v", "o", " ", "4", "5", "\n">>, angle |-> Some(45)],
     [line |-> <<"7", "\r", "\n">>, angle |-> Some(7)],
     [line |-> <<"2", "0", "0", "\n">>, angle |-> None]}

\* more bytes than the buffer holds before the terminator, then another line
OverlongCases ==
    [kind : {"overlong"}, len : {BUFFER_LEN, BUFFER_LEN + 1, BUFFER_LEN + 6},
     term : Terminators, next : FollowUps]

\* an over-long line whose first BUFFER_LEN - 1 bytes are blanks and the
\* digits of n, followed by more of the line
TruncatedCases ==
    [kind : {"truncated"}, n : 0..MAX_ANGLE,
     extra : {<<"0">>, <<"x", "y">>, <<" ", "s">>}, term : Terminators]

SerialCases == CommandCases \cup RejectCases \cup OverlongCases \cup TruncatedCases

\* the bytes of a case as the UART receives them
case_text(d) ==
    CASE d.kind = "command" ->
            d.pad \o CommandPrefixes[d.prefix + 1] \o to_string(d.n)
                  \o d.pad \o d.term
      [] d.kind = "reject" -> d.body \o d.term
      [] d.kind = "overlong" -> repeat("x", d.len) \o d.term \o d.next.line
      [] d.kind = "truncated" ->
            repeat(" ", BUFFER_LEN - 1 - Len(to_string(d.n)))
                \o to_string(d.n) \o d.extra \o d.term

-----------------------------------------------------------------------------
(* Initial states *)

HistInit ==
    [requests        |-> 0,        \* connections accepted by the HTTP server
     accepted        |-> 0,        \* commands published on SERVO_ANGLE
     overwritten     |-> 0,        \* of these, published over an unread one
     published       |-> None,     \* what the request being answered published
     slotBefore      |-> None,     \* SERVO_ANGLE when that request was read
     applied         |-> 0,        \* set_angle calls of the control loop
     lastAngle       |-> None,     \* the angle of the last such call
     repeated        |-> FALSE,    \* a call repeated the angle of the call before
     linkSeen        |-> FALSE,    \* main saw is_link_up() true
     ipSeen          |-> FALSE,    \* main saw config_v4() present
     linkEverUp      |-> FALSE,    \* the link has been up
     ipEverBound     |-> FALSE,    \* an address has been acquired
     failures        |-> 0,        \* failed association attempts
     disconnects     |-> 0,        \* disassociation events
     cooldown_ms     |-> 0,        \* the timer the connection task waits on
     lines           |-> 0,        \* lines received by the UART
     serialPublished |-> 0,        \* commands published on SERIAL_SERVO_ANGLE
     notice          |-> "none",   \* what the serial task printed for the last byte
     read            |-> "none",   \* what socket.read gave on this connection
     writeError      |-> FALSE,    \* a socket.write failed on this connection
     sent            |-> [kind |-> "none"],  \* the serial input under study
     pubSeq          |-> <<>>,     \* the angles published on SERVO_ANGLE, in order
     appSeq          |-> <<>>,     \* the angles the control loop applied, in order
     sinceAttempt    |-> "none"]   \* "none" before the first connect_async,
                                   \* then "attempted" until a cooldown has
                                   \* been waited ("cooled")

\* main up to its first await: the servo at 90 degrees, the connection task
\* and net_task spawned; serial_input_task is not spawned by main
Init ==
    /\ staState = "Invalid"
    /\ started = FALSE
    /\ discEvent = FALSE
    /\ apAccepts \in BOOLEAN
    /\ linkUp = FALSE
    /\ ipv4 = FALSE
    /\ pc_conn = "top"
    /\ pc_main = "link_wait"
    /\ httpSpawned = FALSE
    /\ duty_hw = duty_raw(BOOT_ANGLE)
    /\ pc_http = "unspawned"
    /\ request = <<>>
    /\ response = None
    /\ offset = 0
    /\ SERVO_ANGLE = None
    /\ SERIAL_SERVO_ANGLE = None
    /\ pc_serial = "unspawned"
    /\ rxq = <<>>
    /\ buffer = <<>>
    /\ hist = HistInit

\* the device after bring-up: associated, address acquired, the HTTP server
\* accepting, main in the control loop
BroughtUp ==
    /\ staState = "Connected"
    /\ started = TRUE
    /\ discEvent = FALSE
    /\ apAccepts = TRUE
    /\ linkUp = TRUE
    /\ ipv4 = TRUE
    /\ pc_conn = "wait_disconnected"
    /\ pc_main = "loop"
    /\ httpSpawned = TRUE
    /\ duty_hw = duty_raw(BOOT_ANGLE)
    /\ request = <<>>
    /\ response = None
    /\ offset = 0
    /\ SERIAL_SERVO_ANGLE = None
    /\ buffer = <<>>

HistBroughtUp ==
    [HistInit EXCEPT !.linkSeen = TRUE, !.ipSeen = TRUE,
                     !.linkEverUp = TRUE, !.ipEverBound = TRUE,
                     !.sinceAttempt = "attempted"]

\* after bring-up, with serial_input_task running beside the control loop
BusInit ==
    /\ BroughtUp
    /\ pc_http = "accept"
    /\ pc_serial = "poll"
    /\ rxq = <<>>
    /\ SERVO_ANGLE = None
    /\ hist = HistBroughtUp

\* after bring-up, a connection accepted and its request about to be read;
\* an earlier command may still be unread in the slot
HttpInit ==
    /\ BroughtUp
    /\ pc_http = "read"
    /\ pc_serial = "unspawned"
    /\ rxq = <<>>
    /\ \/ /\ SERVO_ANGLE = None
          /\ hist = [HistBroughtUp EXCEPT !.requests = 1]
       \/ /\ SERVO_ANGLE = Some(33)
          /\ hist = [HistBroughtUp EXCEPT !.requests = 2, !.accepted = 1,
                                          !.pubSeq = <<33>>]

-----------------------------------------------------------------------------
(* Specifications *)

\* the program as main builds it
Next ==
    \/ ApUp
    \/ ApDown
    \/ Disassociate
    \/ NetLinkUp
    \/ NetLinkDown
    \/ DhcpBound
    \/ connection
    \/ main_link_poll
    \/ main_ip_poll
    \/ control_loop
    \/ http_server_task(BootRequests)

Spec == Init /\ [][Next]_vars

\* the connection task with the radio, the access point and the IP stack
LinkNext ==
    \/ ApUp
    \/ ApDown
    \/ Disassociate
    \/ NetLinkUp
    \/ NetLinkDown
    \/ DhcpBound
    \/ connection

LinkSpec == Init /\ [][LinkNext]_vars

\* the executor runs the connection task whenever it can take a step: its
\* timers fire and the driver completes start and connect requests; the
\* access point and the radio link owe nothing
LinkFairness == WF_vars(connection)

FairLinkSpec == LinkSpec /\ LinkFairness

\* the command bus after bring-up: both producers and the control loop
BusNext ==
    \/ http_server_task(BusRequests)
    \/ control_loop
    \/ serial_input_task
    \/ uart_receive(BusLines)

BusSpec == BusInit /\ [][BusNext]_vars

\* the executor runs the control loop whenever its wait is ready; clients,
\* the UART and the other tasks owe nothing
BusFairness == WF_vars(control_loop)

FairBusSpec == BusSpec /\ BusFairness

\* the HTTP server alone after bring-up, one connection after the other
ServerInit ==
    /\ BroughtUp
    /\ pc_http = "accept"
    /\ pc_serial = "unspawned"
    /\ rxq = <<>>
    /\ SERVO_ANGLE = None
    /\ hist = HistBroughtUp

ServerNext == http_server_task(ServerRequests)

ServerSpec == ServerInit /\ [][ServerNext]_vars

\* serial_input_task alone, with the bytes of one input in the UART
SerialInit ==
    /\ BroughtUp
    /\ pc_http = "accept"
    /\ pc_serial = "poll"
    /\ SERVO_ANGLE = None
    /\ \E d \in SerialCases :
         /\ rxq = case_text(d)
         /\ hist = [HistBroughtUp EXCEPT !.sent = d, !.lines = MaxLines]

SerialNext == serial_input_task

SerialSpec == SerialInit /\ [][SerialNext]_vars

\* serial_input_task with a UART that receives a stream of bytes
StreamInit ==
    /\ BroughtUp
    /\ pc_http = "accept"
    /\ pc_serial = "poll"
    /\ rxq = <<>>
    /\ SERVO_ANGLE = None
    /\ hist = HistBroughtUp

StreamNext ==
    \/ serial_input_task
    \/ uart_stream

StreamSpec == StreamInit /\ [][StreamNext]_vars

\* the executor runs the serial task whenever it can take a step: it is
\* never suspended but at its timer; the sender of the stream owes nothing
StreamFairness == WF_vars(serial_input_task)

FairStreamSpec == StreamSpec /\ StreamFairness

\* the control loop alone, with one command pending in the HTTP slot
DutyInit ==
    /\ BroughtUp
    /\ pc_http = "accept"
    /\ pc_serial = "unspawned"
    /\ rxq = <<>>
    /\ \E a \in 0..MAX_ANGLE :
         /\ SERVO_ANGLE = Some(a)
         /\ hist = [HistBroughtUp EXCEPT !.requests = 1, !.accepted = 1,
                                         !.pubSeq = <<a>>]

DutyNext == control_loop

DutySpec == DutyInit /\ [][DutyNext]_vars

\* the router alone: one request read and handled
HttpNext == ~Halted /\ http_read_request(HttpRequests)

HttpSpec == HttpInit /\ [][HttpNext]_vars

-----------------------------------------------------------------------------
(* The router's answers: properties of HttpSpec *)

\* a request has been read and handled; its response is about to be written
Handled == pc_http = "write" /\ offset = 0

\* the response built for the request
Resp == Unwrap(response)

\* the request was answered with this status and published this angle
Answered200(a) ==
    /\ Resp.status = "200 OK"
    /\ Resp.content_type = "application/json"
    /\ Resp.body = <<"{\"angle\": ">> \o to_string(a) \o <<"}">>
    /\ hist.published = Some(a)
    /\ SERVO_ANGLE = Some(a)

\* the request was answered with this status and published nothing
Refused(status) ==
    /\ Resp.status = status
    /\ hist.published = None
    /\ SERVO_ANGLE = hist.slotBefore

\* C7: for every integer a in [0,180], GET /servo/<a> is answered 200 OK
\* with body {"angle": a} and publishes a on the HTTP slot; GET /servo/200
\* is answered 400 Bad Request.
C7_PathAngle ==
    Handled =>
        /\ \A a \in 0..180 :
             request = http_request(GET, servo_path(a)) => Answered200(a)
        /\ request = http_request(GET, servo_path(200))
             => Refused("400 Bad Request")

C7_Witness ==
    /\ Handled
    /\ request = http_request(GET, servo_path(180))
    /\ hist.slotBefore = Some(33)
    /\ Answered200(180)

\* every enumerated query with the pairs it was joined from
QueryTable ==
    {<<http_request(GET, query_path(pairs)), pairs>> :
        pairs \in SeqsUpTo(QueryPairs, MaxPairs)
                  \cup {<<angle_pair(a)>> : a \in 0..MAX_ANGLE}
                  \cup {<<angle_pair(a), <<"x", "=", "1">> >> : a \in 0..MAX_ANGLE}
                  \cup {<< <<"x", "=", "1">>, angle_pair(a)>> : a \in 0..MAX_ANGLE}}

\* C8 as stated: for every a in [0,180] and every query of '&'-joined pairs
\* that contains the pair angle=<a> at any position, GET /servo?<query> is
\* answered 200 OK with body {"angle": a} and publishes a.
C8_AnyPosition ==
    Handled =>
        \A e \in QueryTable :
            request = e[1] =>
                \A i \in 1..Len(e[2]) : \A a \in 0..180 :
                    e[2][i] = angle_pair(a) => Answered200(a)

\* the pairs before position i neither start with "angle=" nor hold a '?'
PlainBefore(pairs, i) ==
    \A j \in 1..(i - 1) :
        /\ ~starts_with(pairs[j], ANGLE_EQ)
        /\ \A k \in 1..Len(pairs[j]) : pairs[j][k] # "?"

\* C8 amended: the same, when angle=<a> is the first pair that starts with
\* "angle=" and no pair before it holds a '?'.
C8_FirstAnglePair ==
    Handled =>
        \A e \in QueryTable :
            request = e[1] =>
                \A i \in 1..Len(e[2]) : \A a \in 0..180 :
                    (e[2][i] = angle_pair(a) /\ PlainBefore(e[2], i))
                        => Answered200(a)

C8_Witness ==
    /\ Handled
    /\ request = http_request(GET, query_path(
           << <<"x", "=", "1">>, angle_pair(90), <<"y", "=", "?">> >>))
    /\ Answered200(90)

\* /servo... paths from which no angle in [0,180] can be read
NoAnglePaths ==
    {<<"/", "s", "e", "r", "v", "o">>,
     <<"/", "s", "e", "r", "v", "o", "/">>,
     <<"/", "s", "e", "r", "v", "o", "x">>,
     <<"/", "s", "e", "r", "v", "o", "9", "0">>,
     <<"/", "s", "e", "r", "v", "o", "/", "a", "b", "c">>,
     <<"/", "s", "e", "r", "v", "o", "/", "-", "1">>,
     <<"/", "s", "e", "r", "v", "o", "/", "9", "x">>,
     <<"/", "s", "e", "r", "v", "o", "/", "9", "0", "/">>,
     <<"/", "s", "e", "r", "v", "o", "/", "1", "e", "2">>,
     <<"/", "s", "e", "r", "v", "o", "?">>,
     <<"/", "s", "e", "r", "v", "o", "?", "x", "=", "1">>,
     <<"/", "s", "e", "r", "v", "o", "?", "a", "n", "g", "l", "e", "=">>,
     <<"/", "s", "e", "r", "v", "o", "?", "a", "n", "g", "l", "e">>,
     <<"/", "s", "e", "r", "v", "o", "?", "A", "n", "g", "l", "e", "=", "9", "0">>,
     <<"/", "s", "e", "r", "v", "o", "?", "a", "n", "g", "l", "e", "=", "1", "8", "1">>,
     <<"/", "s", "e", "r", "v", "o", "?", "a", "n", "g", "l", "e", "=", "9", "9", "9">>,
     <<"/", "s", "e", "r", "v", "o", "&", "a", "n", "g", "l", "e", "=", "9", "0">>,
     <<"/", "s", "e", "r", "v", "o", "#", "9", "0">>}

\* every enumerated path that starts with /servo
ServoPaths ==
    {servo_path(n) : n \in PathNumbers} \cup OddServoPaths \cup QueryPaths

\* C9: a GET whose path starts with /servo and yields no angle in [0,180]
\* (a number above 180 of any magnitude, a non-numeric or missing angle,
\* /servo, /servo/, /servox) is answered 400 Bad Request, never 200 or 404,
\* and publishes nothing on the HTTP slot.
C9_ServoRejected ==
    Handled =>
        /\ \A n \in PathNumbers :
             (n > 180 /\ request = http_request(GET, servo_path(n)))
                => Refused("400 Bad Request")
        /\ \A path \in NoAnglePaths :
             request = http_request(GET, path) => Refused("400 Bad Request")
        /\ \A path \in ServoPaths :
             request = http_request(GET, path)
                => \/ Refused("400 Bad Request")
                   \/ /\ Resp.status = "200 OK"
                      /\ \E a \in 0..180 : Answered200(a)

C9_Witness ==
    /\ Handled
    /\ request = http_request(GET, servo_path(256))
    /\ hist.slotBefore = Some(33)
    /\ Refused("400 Bad Request")

\* C10: a request whose first line lacks a method or a path is answered
\* 400 Bad Request (text/plain); otherwise a method other than GET is
\* answered 405 Method Not Allowed for every path and publishes nothing;
\* otherwise a GET whose path is not /, not /health and does not start with
\* /servo is answered 404 Not Found.
C10_Routing ==
    Handled =>
        /\ \A r \in MalformedRequests :
             request = r => /\ Refused("400 Bad Request")
                            /\ Resp.content_type = "text/plain"
                            /\ Resp.body = <<"Bad Request">>
        /\ \A m \in OtherMethods \cup {<<"g", "e", "t">>} :
             \A path \in OtherMethodPaths :
               request = http_request(m, path)
                  => Refused("405 Method Not Allowed")
        /\ \A path \in OtherPaths \ {ROOT_PATH, HEALTH_PATH} :
             request = http_request(GET, path) => Refused("404 Not Found")

C10_Witness ==
    /\ Handled
    /\ request = http_request(POST, servo_path(90))
    /\ hist.slotBefore = Some(33)
    /\ Refused("405 Method Not Allowed")

-----------------------------------------------------------------------------
(* The command bus: properties of BusSpec and FairBusSpec *)

\* a command is unread in each of the two slots
BothPending == IsSome(SERVO_ANGLE) /\ IsSome(SERIAL_SERVO_ANGLE)

\* C1: when the HTTP channel and the serial channel have each published a
\* command before the control loop drained either, both commands are
\* applied and neither is lost: the control loop eventually takes the
\* command out of the HTTP slot and the command out of the serial slot.
C1_BothServiced ==
    /\ BothPending ~> (SERVO_ANGLE = None)
    /\ BothPending ~> (SERIAL_SERVO_ANGLE = None)

\* C2 as stated: every accepted command results in exactly one actuator
\* write, so once the control loop has emptied the slot the number of its
\* set_angle calls equals the number of accepted commands.
C2_ExactlyOneWrite ==
    (pc_main = "loop" /\ SERVO_ANGLE = None) => hist.applied = hist.accepted

\* the command unread in the HTTP slot, counted
PendingCount == IF IsSome(SERVO_ANGLE) THEN 1 ELSE 0

\* C2 amended: every accepted command results in at most one actuator
\* write, and in exactly one unless a newer command replaced it unread: the
\* set_angle calls of the control loop, the commands replaced unread and
\* the command still unread add up to the accepted commands.  Equal angles
\* are not suppressed: each read of the slot is one write.
C2_OneWritePerRead ==
    hist.applied + hist.overwritten + PendingCount = hist.accepted

C2_Witness ==
    /\ hist.repeated
    /\ hist.accepted = 2
    /\ hist.applied = 2
    /\ hist.lastAngle = Some(90)

\* C3: every value pending in the HTTP slot or in the serial slot, and
\* every angle the control loop passes to set_angle, is in [0,180], so the
\* clamp inside set_angle leaves it as it is.
C3_InRange ==
    /\ IsSome(SERVO_ANGLE) => Unwrap(SERVO_ANGLE) \in 0..180
    /\ IsSome(SERIAL_SERVO_ANGLE) => Unwrap(SERIAL_SERVO_ANGLE) \in 0..180
    /\ IsSome(hist.lastAngle) =>
          /\ Unwrap(hist.lastAngle) \in 0..180
          /\ clamp_angle(Unwrap(hist.lastAngle)) = Unwrap(hist.lastAngle)

C3_Witness ==
    /\ hist.lastAngle = Some(180)
    /\ SERVO_ANGLE = Some(90)
    /\ SERIAL_SERVO_ANGLE = Some(7)
    /\ hist.lines = 2

-----------------------------------------------------------------------------
(* Bring-up: properties of Spec *)

\* the HTTP server task or the control loop has been started
ServicesStarted == httpSpawned \/ pc_http # "unspawned" \/ pc_main = "loop"

\* C4: the HTTP server is started and the control loop first waits only
\* after main has seen the link up and, after that, an address; while the
\* link has never been up or no address has ever been acquired, neither is
\* started and the actuator stays where boot put it.
C4_BringUpOrder ==
    /\ ServicesStarted => (hist.linkSeen /\ hist.ipSeen)
    /\ (hist.ipSeen \/ pc_main = "ip_wait") => hist.linkSeen
    /\ hist.linkSeen => hist.linkEverUp
    /\ hist.ipSeen => hist.ipEverBound
    /\ (~hist.linkEverUp \/ ~hist.ipEverBound) =>
          /\ ~ServicesStarted
          /\ duty_hw = duty_raw(BOOT_ANGLE)
          /\ hist.applied = 0
          /\ hist.requests = 0

C4_Witness ==
    /\ pc_main = "loop"
    /\ pc_http = "accept"
    /\ hist.failures >= 1
    /\ hist.applied >= 1

-----------------------------------------------------------------------------
(* The connection task: properties of LinkSpec and FairLinkSpec *)

\* C5 as stated: after a disassociation seen while Connected the task is in
\* Disconnected, waits the cooldown before anything else, and then starts
\* the radio (Starting) before it associates (Connecting).
C5_RestartsRadio ==
    [][/\ (pc_conn = "wait_disconnected" /\ pc_conn' # pc_conn)
            => /\ pc_conn' = "cooldown_disconnected"
               /\ staState' = "Disconnected"
               /\ hist'.cooldown_ms = 5000
       /\ (pc_conn = "cooldown_disconnected" /\ pc_conn' # pc_conn)
            => pc_conn' = "starting"
       /\ (pc_conn = "starting" /\ pc_conn' # pc_conn /\ hist.disconnects > 0)
            => pc_conn' = "connecting"]_vars

\* C5 amended: after a disassociation seen while Connected the task is in
\* Disconnected, waits the cooldown (5 s) before anything else, and then
\* associates again (Connecting); the radio, which is still started, is not
\* started again.
C5_Reconnects ==
    [][/\ (pc_conn = "wait_disconnected" /\ pc_conn' # pc_conn)
            => /\ pc_conn' = "cooldown_disconnected"
               /\ staState' = "Disconnected"
               /\ hist'.cooldown_ms = 5000
       /\ (pc_conn = "cooldown_disconnected" /\ pc_conn' # pc_conn)
            => /\ pc_conn' = "connecting"
               /\ started /\ started'
               /\ staState' = "Disconnected"]_vars

C5_Witness ==
    /\ pc_conn = "connecting"
    /\ staState = "Disconnected"
    /\ hist.disconnects = 1
    /\ hist.failures = 0

\* C6: a failed association attempt is followed by another attempt, however
\* many failed before it; neither a failed association nor a disassociation
\* ends the task; and while the access point accepts associations the
\* started station reaches Connected.
C6_RetriesForever ==
    /\ (pc_conn = "cooldown_failed") ~> (pc_conn = "connecting")
    /\ (pc_conn = "cooldown_disconnected") ~> (pc_conn = "connecting")
    /\ [][(pc_conn = "connecting" /\ pc_conn' # pc_conn)
            => pc_conn' \in {"top", "cooldown_failed"}]_vars
    /\ [](pc_conn \in {"top", "wait_disconnected", "cooldown_disconnected",
                       "starting", "connecting", "cooldown_failed", "panicked"})
    /\ [](pc_conn = "panicked" => (hist.failures = 0 /\ hist.disconnects = 0))
    /\ (apAccepts /\ started) ~> (staState = "Connected" \/ ~apAccepts)

C6_Witness ==
    /\ hist.failures = 2
    /\ staState = "Connected"
    /\ pc_conn = "wait_disconnected"

-----------------------------------------------------------------------------
(* The router's effects: properties of HttpSpec *)

\* the request just handled was sent to a /servo path and answered 200 OK
ServoAnswered200(req, resp) ==
    /\ resp.status = "200 OK"
    /\ IsSome(parse_request(req))
    /\ is_servo_route(Unwrap(parse_request(req))[2])

\* C11: handling one HTTP request publishes on the HTTP slot at most once,
\* and it publishes exactly when the response is a 200 to a /servo request;
\* a request answered with the GET / or GET /health body, or with 400, 404
\* or 405, leaves the HTTP slot, the serial slot and the link state
\* unchanged.
C11_PublishFrame ==
    [][(pc_http = "read" /\ pc_http' = "write") =>
        LET servo200 == ServoAnswered200(request', Unwrap(response'))
        IN  /\ hist'.accepted \in {hist.accepted, hist.accepted + 1}
            /\ (hist'.accepted = hist.accepted + 1) <=> servo200
            /\ IsSome(hist'.published) <=> servo200
            /\ servo200 => SERVO_ANGLE' = hist'.published
            /\ ~servo200 => SERVO_ANGLE' = SERVO_ANGLE
            /\ SERIAL_SERVO_ANGLE' = SERIAL_SERVO_ANGLE
            /\ linkVars' = linkVars
            /\ netVars' = netVars]_vars

C11_Witness ==
    /\ Handled
    /\ request = http_request(GET, servo_path(200))
    /\ Resp.status = "400 Bad Request"
    /\ hist.slotBefore = Some(33)
    /\ SERVO_ANGLE = Some(33)
    /\ hist.published = None

-----------------------------------------------------------------------------
(* The HTTP server's connections: properties of ServerSpec *)

\* C12: every inbound request gets exactly one response: for every accepted
\* connection on which a non-empty request is read, the server has written
\* one complete response (status line, Content-Type, Content-Length,
\* Connection: close, body) when it closes the connection, whatever the
\* request bytes are.  A connection on which a socket write failed is left
\* out: nothing can be completed on it.
C12_AlwaysComplete ==
    (pc_http = "delay" /\ hist.read \in {"text", "binary"} /\ ~hist.writeError)
        => /\ IsSome(response)
           /\ Resp.connection = "close"
           /\ Resp.content_length = ByteLen(Resp.body)
           /\ offset = response_len(Resp)

-----------------------------------------------------------------------------
(* The serial parser: properties of SerialSpec *)

\* every byte of the input has been read and processed
InputDone == rxq = <<>>

\* C13: for every n in [0,180], a line that fits the buffer, is terminated
\* by CR or LF, and after trimming whitespace is the bare integer n or n
\* preceded by one of the prefixes "servo ", "angle ", "s ", "a ", "s", "a",
\* publishes n on the serial slot exactly once (CR LF after the line does
\* not publish it a second time); "servo 45\n" publishes 45.
C13_AcceptedFormats ==
    /\ hist.sent.kind = "command"
         => /\ hist.serialPublished <= 1
            /\ InputDone => /\ SERIAL_SERVO_ANGLE = Some(hist.sent.n)
                            /\ hist.serialPublished = 1
                            /\ buffer = <<>>
            /\ hist.serialPublished = 1 => SERIAL_SERVO_ANGLE = Some(hist.sent.n)
    /\ (InputDone /\ hist.sent = [kind |-> "command", prefix |-> 1, n |-> 45,
                                    pad |-> <<>>, term |-> <<"\n">>])
         => SERIAL_SERVO_ANGLE = Some(45)

C13_Witness ==
    /\ hist.sent = [kind |-> "command", prefix |-> 5, n |-> 180,
                    pad |-> <<" ">>, term |-> <<"\r", "\n">>]
    /\ InputDone
    /\ pc_serial = "sleep"
    /\ SERIAL_SERVO_ANGLE = Some(180)
    /\ hist.serialPublished = 1

\* the buffered input holds a byte that is not whitespace
NonBlank(bytes) == \E i \in 1..Len(bytes) : ~IsWhitespace(bytes[i])

\* the task reads a line terminator while bytes are buffered
TerminatorRead ==
    /\ pc_serial = "poll"
    /\ rxq # <<>>
    /\ Head(rxq) \in {"\r", "\n"}
    /\ rxq' = Tail(rxq)
    /\ buffer # <<>>

\* C14: when a terminator arrives with a non-empty buffer whose content
\* does not parse to an angle in [0,180] (out of range such as "200", or
\* unparsable), nothing is published on the serial slot, an "unknown
\* command" notice is emitted whenever the buffered input is non-blank, and
\* the buffer is reset to empty.
C14_Rejection ==
    [][(hist.sent.kind = "reject" /\ TerminatorRead)
         => /\ SERIAL_SERVO_ANGLE' = SERIAL_SERVO_ANGLE
            /\ hist'.serialPublished = hist.serialPublished
            /\ NonBlank(buffer) => hist'.notice = "unknown"
            /\ ~NonBlank(buffer) => hist'.notice = "none"
            /\ buffer' = <<>>]_vars

\* the task reads a byte that is no line terminator
ByteRead ==
    /\ pc_serial = "poll"
    /\ rxq # <<>>
    /\ Head(rxq) \notin {"\r", "\n"}
    /\ rxq' = Tail(rxq)

\* the terminator of the over-long input has been read and the line after
\* it has not been started
AfterOverlong ==
    /\ hist.sent.kind = "overlong"
    /\ Len(rxq) >= Len(hist.sent.next.line)
    /\ Len(rxq) < Len(hist.sent.next.line) + Len(hist.sent.term)

\* C15: the fill position of the serial line buffer never exceeds its
\* capacity of 64 bytes; a non-terminator byte received when the buffer
\* takes no more (63 bytes stored) leaves buffer and position unchanged;
\* after the terminator that ends an over-long input the position is 0, and
\* the next line is parsed as it is when sent alone.
C15_BoundedBuffer ==
    /\ [](Len(buffer) <= BUFFER_LEN)
    /\ [][(ByteRead /\ Len(buffer) >= BUFFER_LEN - 1) => buffer' = buffer]_vars
    /\ [](AfterOverlong => /\ buffer = <<>>
                           /\ SERIAL_SERVO_ANGLE = None
                           /\ hist.serialPublished = 0)
    /\ []((hist.sent.kind = "overlong" /\ InputDone)
            => /\ buffer = <<>>
               /\ SERIAL_SERVO_ANGLE = hist.sent.next.angle
               /\ hist.serialPublished
                    = IF IsSome(hist.sent.next.angle) THEN 1 ELSE 0
               /\ hist.sent.next.angle = None => hist.notice = "unknown")

C15_Witness ==
    /\ hist.sent.kind = "overlong"
    /\ hist.sent.len = BUFFER_LEN + 6
    /\ hist.sent.next.angle = Some(45)
    /\ InputDone
    /\ buffer = <<>>
    /\ SERIAL_SERVO_ANGLE = Some(45)

\* C20: when more bytes than the buffer holds arrive before a terminator,
\* the terminator makes the parser parse the retained first 63 bytes, and
\* when they form a valid command in [0,180] that command is published on
\* the serial slot although it is not the line that was sent.
C20_TruncatedPublished ==
    hist.sent.kind = "truncated"
      => /\ Len(case_text(hist.sent)) > BUFFER_LEN
         /\ Len(rxq) = Len(hist.sent.term)
              => /\ buffer = SubSeq(case_text(hist.sent), 1, BUFFER_LEN - 1)
                 /\ hist.serialPublished = 0
         /\ InputDone => /\ SERIAL_SERVO_ANGLE = Some(hist.sent.n)
                         /\ hist.serialPublished = 1
                         /\ buffer = <<>>

C20_Witness ==
    /\ hist.sent = [kind |-> "truncated", n |-> 18, extra |-> <<"0">>,
                    term |-> <<"\n">>]
    /\ InputDone
    /\ SERIAL_SERVO_ANGLE = Some(18)
    /\ hist.serialPublished = 1

-----------------------------------------------------------------------------
(* The serial task's waits: properties of FairStreamSpec *)

\* C19: in every execution the serial task suspends at a wait point
\* infinitely often; whenever no input byte is pending it yields (timer
\* wait) before polling again, and it does not loop without yielding for
\* any input pattern or read outcome.
C19_YieldsForEver ==
    /\ []<>(pc_serial = "sleep")
    /\ [][(pc_serial = "poll" /\ rxq = <<>> /\ pc_serial' # pc_serial)
            => pc_serial' = "sleep"]_vars

-----------------------------------------------------------------------------
(* The duty mapping: properties of DutySpec *)

\* the value fits an unsigned 32-bit integer
FitsU32(v) == v >= 0 /\ v \div 65536 < 65536

\* C16: for all integers a in [0,180], the duty the control loop programs
\* is ((500 + (2000 * a) / 180) * 16384) / 20000 with truncating division;
\* it is monotonically non-decreasing in a, it is 409 (the 500 us pulse) at
\* a = 0, its minimum, and 2048 (the 2500 us pulse) at a = 180, its
\* maximum, and no intermediate product exceeds the 32-bit unsigned range.
C16_DutyMapping ==
    IsSome(hist.lastAngle) =>
        LET a == Unwrap(hist.lastAngle)
        IN  /\ a \in 0..180
            /\ duty_hw = ((500 + (2000 * a) \div 180) * 16384) \div 20000
            /\ \A b \in 0..a : duty_raw(b) <= duty_hw
            /\ \A b \in a..180 : duty_hw <= duty_raw(b)
            /\ a = 0 => duty_hw = 409 /\ pulse_us(a) = 500
            /\ a = 180 => duty_hw = 2048 /\ pulse_us(a) = 2500
            /\ duty_hw >= 409 /\ duty_hw <= 2048
            /\ FitsU32(pulse_product(a)) /\ FitsU32(duty_product(a))
            /\ pulse_product(a) = 2000 * a
            /\ duty_product(a) = (500 + (2000 * a) \div 180) * 16384

C16_Witness ==
    /\ hist.lastAngle = Some(180)
    /\ hist.applied = 1
    /\ SERVO_ANGLE = None
    /\ duty_hw = 2048

-----------------------------------------------------------------------------
(* The HTTP channel: properties of FairBusSpec *)

\* a is p with some of its elements left out
RECURSIVE IsSubseq(_, _)
IsSubseq(a, p) ==
    IF a = <<>> THEN TRUE
    ELSE IF p = <<>> THEN FALSE
    ELSE IF Head(a) = Head(p) THEN IsSubseq(Tail(a), Tail(p))
    ELSE IsSubseq(a, Tail(p))

\* the last angle published on the HTTP slot, the last angle applied
LastPublished ==
    IF hist.pubSeq = <<>> THEN None ELSE Some(hist.pubSeq[Len(hist.pubSeq)])

LastApplied ==
    IF hist.appSeq = <<>> THEN None ELSE Some(hist.appSeq[Len(hist.appSeq)])

\* no request will be handled any more
PublishingStopped == hist.requests = MaxRequests /\ pc_http \notin {"read"}

\* C17: the HTTP slot holds at most one pending value and a newer publish
\* overwrites an unread older one; the angles the control loop applies are a
\* subsequence of the angles published, in the same order; and once
\* publishing stops, the last actuator write eventually equals the last
\* published angle.
C17_LossyCoalescing ==
    /\ [](Len(SERVO_ANGLE) <= 1)
    /\ [](IsSome(SERVO_ANGLE) => SERVO_ANGLE = LastPublished)
    /\ [](IsSubseq(hist.appSeq, hist.pubSeq))
    /\ []((SERVO_ANGLE = None /\ hist.pubSeq # <<>>) => LastApplied = LastPublished)
    /\ (PublishingStopped /\ hist.pubSeq # <<>>)
         ~> /\ hist.lastAngle = LastPublished
            /\ LastApplied = LastPublished
            /\ IsSome(LastPublished)
                 => duty_hw = duty_raw(Unwrap(LastPublished))

C17_Witness ==
    /\ PublishingStopped
    /\ hist.pubSeq = <<90, 180, 90>>
    /\ hist.appSeq = <<90, 90>>
    /\ SERVO_ANGLE = None
    /\ hist.lastAngle = Some(90)

-----------------------------------------------------------------------------
(* The cooldown of the connection task: properties of LinkSpec *)

\* the connection task calls connect_async; a step that ends a cooldown and
\* goes on to connect_async has set sinceAttempt to "cooled"
AttemptIssued == pc_conn # "connecting" /\ pc_conn' = "connecting"

\* C18: the connection task never issues two association attempts without
\* a cooldown wait between them: every attempt after the first is preceded
\* by one cooldown, whether the previous attempt failed or it succeeded and
\* the link was lost afterwards (also when the link was lost before the
\* task started to wait for the disassociation event).
C18_CooldownBetweenAttempts ==
    [][AttemptIssued => hist'.sinceAttempt # "attempted"]_vars

====
